---- MODULE Spec2Model ----
(***************************************************************************)
(* Model of src/Restockv1.js: a stream consumer that logs qualifying       *)
(* trades into a spreadsheet ledger (deduplicated by buyer address), a     *)
(* timer-driven refund loop that pays the first pending row from a         *)
(* treasury, and the rate limiter in front of the owner resolution call.   *)
(*                                                                         *)
(* Amounts and balances are whole SOL.  Time is in milliseconds.           *)
(***************************************************************************)
EXTENDS Integers, Sequences, FiniteSets, TLC

\* ---------------------------------------------------------------- constants
TARGET_MINT_ADDRESS == "FU9etYuLtzANF59y5oNoByLge3raMEUn7EC56LkuBAGS"
SOL_MINT_ADDRESSES ==
  { "So11111111111111111111111111111111111111111",
    "So11111111111111111111111111111111111111112" }
RATE_LIMIT_PER_SECOND == 9
RATE_LIMIT_INTERVAL == 1000
REFUND_CHECK_INTERVAL == 300000
MAX_WRITE_RETRIES == 3
TOKEN_PROGRAM_IDS ==
  { "TokenkegQfeZyiNwAJbNbGKPFXCWuBvf9Ss623VQ5DA",
    "TokenzQdBNbLqP5VEhdkAS6EPFLC1PHnBqCXEpPxuEb" }

\* ------------------------------------------------------------------- bounds
MaxRecords == 2      \* rows the ledger may hold
MaxTrades == 2       \* trade events in one data message
MaxCycles == 2       \* refund cycles in flight at once
MaxBalance == 5      \* the treasury's balance at the start (SOL)
TickMs == 500        \* granularity of the clock in RateLimitSpec
NumCallers == 19     \* concurrent callers of the resolver: two full windows
                     \* and one more

\* ------------------------------------------------------------------- inputs
Addrs == {"W1", "W2"}
\* What each buyer pays in the trades of the feed.
Paid == [a \in Addrs |-> IF a = "W1" THEN 2 ELSE 1]

Min(a, b) == IF a < b THEN a ELSE b
Max(a, b) == IF a > b THEN a ELSE b

VARIABLES
  proc,           \* "running" | "uncaughtException" | "unhandledRejection"
  enableRefunds,  \* ENABLE_REFUNDS
  uniqueWallets,  \* the Set of buyer addresses already accepted
  workbook,       \* workbook.Sheets["Trades"]: the rows in memory
  fileExists,     \* fs.existsSync(OUTPUT_FILE)
  file,           \* the rows of trades.xlsx on disk
  requestCount,   \* rate limiter: calls counted in the current window
  sinceReset,     \* rate limiter: Date.now() - lastResetTime, in ms
  treasury,       \* balance of the treasury account on chain
  transfers,      \* transfers the chain has executed, in order
  refunds,        \* the processRefunds invocations in flight
  callers,        \* RateLimitSpec: the resolver's callers, by position
  acquired        \* RateLimitSpec: age in ms of each slot taken in the
                  \* last RATE_LIMIT_INTERVAL

vars == << proc, enableRefunds, uniqueWallets, workbook, fileExists, file,
           requestCount, sinceReset, treasury, transfers, refunds,
           callers, acquired >>

\* The limiter compares Date.now() - lastResetTime with RATE_LIMIT_INTERVAL
\* and sleeps for their difference: the model keeps that difference, up to
\* RATE_LIMIT_INTERVAL (beyond it the code behaves the same), and the time
\* each sleeping call has left.

\* ------------------------------------------------------------ the worksheet
\* A sheet row is the tuple of its cells under the header
\* ["ATA", "sol_buy_amount", "status", "solscan_link"].
sheet_to_json(sheet) ==
  [k \in 1..Len(sheet) |->
     [ATA |-> sheet[k][1], sol_buy_amount |-> sheet[k][2],
      status |-> sheet[k][3], solscan_link |-> sheet[k][4]]]

json_to_sheet(trades) ==
  [k \in 1..Len(trades) |->
     << trades[k].ATA, trades[k].sol_buy_amount,
        trades[k].status, trades[k].solscan_link >>]

\* The retry loop giving up one attempt late (retries compared with
\* MAX_WRITE_RETRIES instead of MAX_WRITE_RETRIES - 1).
RECURSIVE WriteLoop_one_more(_, _)
WriteLoop_one_more(retries, fails) ==
  IF retries <= MAX_WRITE_RETRIES
  THEN IF fails = 0
       THEN [ok |-> TRUE, attempts |-> retries + 1]
       ELSE IF retries = MAX_WRITE_RETRIES
            THEN [ok |-> FALSE, attempts |-> retries + 1]
            ELSE WriteLoop_one_more(retries + 1, fails - 1)
  ELSE [ok |-> FALSE, attempts |-> retries]

\* The retry loop around XLSX.writeFileSync.  fails is the number of
\* consecutive attempts the disk rejects from now on.
RECURSIVE WriteLoop(_, _)
WriteLoop(retries, fails) ==
  IF retries < MAX_WRITE_RETRIES
  THEN IF fails = 0
       THEN [ok |-> TRUE, attempts |-> retries + 1]
       ELSE IF retries = MAX_WRITE_RETRIES - 1
            THEN [ok |-> FALSE, attempts |-> retries + 1]
            ELSE WriteLoop(retries + 1, fails - 1)
  ELSE [ok |-> FALSE, attempts |-> retries]

\* The operations putting the old sheet back when every write failed.
WriteResult_undoes_change(newSheet, st, fails) ==
  LET w == WriteLoop(0, fails)
  IN  [workbook |-> IF w.ok THEN newSheet ELSE st.workbook,
       fileExists |-> st.fileExists \/ w.ok,
       file |-> IF w.ok THEN newSheet ELSE st.file,
       ok |-> w.ok,
       attempts |-> w.attempts]

\* A store is what the two ledger operations read and write:
\* [workbook, fileExists, file], plus the result they return.
WriteResult(newSheet, st, fails) ==
  LET w == WriteLoop(0, fails)
  IN  [workbook |-> newSheet,
       fileExists |-> st.fileExists \/ w.ok,
       file |-> IF w.ok THEN newSheet ELSE st.file,
       ok |-> w.ok,
       attempts |-> w.attempts]

\* appendTradeToExcel rebuilding every existing row as a new pending record.
appendTradeToExcel_resets_rows(st, ata, solAmount, fails) ==
  LET old == sheet_to_json(st.workbook)
      trades == Append([k \in 1..Len(old) |->
                          [old[k] EXCEPT !.status = 0, !.solscan_link = ""]],
                       [ATA |-> ata, sol_buy_amount |-> solAmount,
                        status |-> 0, solscan_link |-> ""])
  IN  WriteResult(json_to_sheet(trades), st, fails)

appendTradeToExcel(st, ata, solAmount, fails) ==
  LET trades == Append(sheet_to_json(st.workbook),
                       [ATA |-> ata, sol_buy_amount |-> solAmount,
                        status |-> 0, solscan_link |-> ""])
  IN  WriteResult(json_to_sheet(trades), st, fails)

\* MergeRow counting the header as a row: the record after the one meant.
MergeRow_header_offset(trades, index, updates) ==
  IF index + 2 \in 1..Len(trades)
  THEN [trades EXCEPT ![index + 2] =
          [@ EXCEPT !.status = updates.status,
                    !.solscan_link = updates.solscan_link]]
  ELSE trades

\* MergeRow without the spread of the existing record: the row is replaced
\* by the updates alone.
MergeRow_replaces_record(trades, index, updates) ==
  [trades EXCEPT ![index + 1] =
     [ATA |-> "", sol_buy_amount |-> 0, status |-> updates.status,
      solscan_link |-> updates.solscan_link]]

MergeRow(trades, index, updates) ==
  [trades EXCEPT ![index + 1] =
     [@ EXCEPT !.status = updates.status,
               !.solscan_link = updates.solscan_link]]

\* updateExcelRow reading the rows back from the file on disk instead of
\* the workbook in memory.
updateExcelRow_reads_file(st, index, updates, fails) ==
  LET trades == MergeRow(sheet_to_json(st.file), index, updates)
  IN  WriteResult(json_to_sheet(trades), st, fails)

updateExcelRow(st, index, updates, fails) ==
  LET trades == MergeRow(sheet_to_json(st.workbook), index, updates)
  IN  WriteResult(json_to_sheet(trades), st, fails)

Store == [workbook |-> workbook, fileExists |-> fileExists, file |-> file]

ledgerVars == << uniqueWallets, workbook, fileExists, file >>
limiterVars == << requestCount, sinceReset >>
chainVars == << treasury, transfers >>
callerVars == << callers, acquired >>

\* ------------------------------------------------------- the rate limiter
\* The limiter moving lastResetTime without clearing requestCount.
RateLimit_keeps_count(elapsed, count) ==
  LET reset == elapsed >= RATE_LIMIT_INTERVAL
      elapsed1 == IF reset THEN 0 ELSE elapsed
  IN  IF count >= RATE_LIMIT_PER_SECOND
      THEN [acquire |-> FALSE, requestCount |-> count,
            sinceReset |-> elapsed1,
            delay |-> RATE_LIMIT_INTERVAL - elapsed1]
      ELSE [acquire |-> TRUE, requestCount |-> count + 1,
            sinceReset |-> elapsed1, delay |-> 0]

\* rateLimitedGetOwnerWallet from its entry to its first await, called when
\* Date.now() - lastResetTime is elapsed: either a slot is taken (the
\* getAccountInfo request goes out) or the caller sleeps for the rest of the
\* window and calls again.
RateLimit(elapsed, count) ==
  LET reset == elapsed >= RATE_LIMIT_INTERVAL
      count1 == IF reset THEN 0 ELSE count
      elapsed1 == IF reset THEN 0 ELSE elapsed
  IN  IF count1 >= RATE_LIMIT_PER_SECOND
      THEN [acquire |-> FALSE, requestCount |-> count1,
            sinceReset |-> elapsed1,
            delay |-> RATE_LIMIT_INTERVAL - elapsed1]
      ELSE [acquire |-> TRUE, requestCount |-> count1 + 1,
            sinceReset |-> elapsed1, delay |-> 0]

\* What getAccountInfo may answer: no account, a failed call, or an account
\* with its owning program and the owner key stored in its data.
AccountInfos ==
  { [found |-> FALSE, threw |-> FALSE, owner |-> "", dataOwner |-> ""],
    [found |-> FALSE, threw |-> TRUE, owner |-> "", dataOwner |-> ""],
    [found |-> TRUE, threw |-> FALSE,
     owner |-> "11111111111111111111111111111111", dataOwner |-> "O1"] }
  \cup
  { [found |-> TRUE, threw |-> FALSE,
     owner |-> "TokenkegQfeZyiNwAJbNbGKPFXCWuBvf9Ss623VQ5DA",
     dataOwner |-> w] : w \in {"O1", "W2"} }

\* The value rateLimitedGetOwnerWallet returns once getAccountInfo settled.
ResolvedOwner(ataAddress, info) ==
  IF info.threw THEN ataAddress
  ELSE IF ~info.found THEN ataAddress
  ELSE IF info.owner \in TOKEN_PROGRAM_IDS THEN info.dataOwner
  ELSE ataAddress

\* ---------------------------------------------------------- refund cycles
CycleIds == 1..MaxCycles

\* requiredBalance without the reserve of 2 SOL.
RequiredBalance_no_reserve(solBuyAmount) == 2 * solBuyAmount

RequiredBalance(solBuyAmount) == 2 + 2 * solBuyAmount

SolscanLink(signature) == "https://solscan.io/tx/" \o ToString(signature)

\* The loop with "continue" in place of "return" for an unaffordable row.
RECURSIVE ScanTrades_continues(_, _, _)
ScanTrades_continues(trades, i, treasuryBalance) ==
  IF i >= Len(trades) THEN [found |-> "none", i |-> -1]
  ELSE IF trades[i + 1].status # 0
       THEN ScanTrades_continues(trades, i + 1, treasuryBalance)
  ELSE IF treasuryBalance >= RequiredBalance(trades[i + 1].sol_buy_amount)
       THEN [found |-> "affordable", i |-> i]
  ELSE ScanTrades_continues(trades, i + 1, treasuryBalance)

\* The for loop of processRefunds over the rows it read, from index i, with
\* the balance it read: rows whose status is not 0 are skipped, and the
\* first pending row ends the loop either way.
RECURSIVE ScanTrades(_, _, _)
ScanTrades(trades, i, treasuryBalance) ==
  IF i >= Len(trades) THEN [found |-> "none", i |-> -1]
  ELSE IF trades[i + 1].status # 0
       THEN ScanTrades(trades, i + 1, treasuryBalance)
  ELSE IF treasuryBalance >= RequiredBalance(trades[i + 1].sol_buy_amount)
       THEN [found |-> "affordable", i |-> i]
  ELSE [found |-> "insufficient", i |-> i]

\* A slot without a cycle; and the locals of a processRefunds invocation:
\* trades (the rows read), i, ata, solBuyAmount, ownerWallet, the time left
\* to sleep in the limiter, and, once it has returned, which line it logged
\* last.
IdleCycle ==
  [pc |-> "idle", trades |-> << >>, i |-> -1, ata |-> "", solBuyAmount |-> 0,
   ownerWallet |-> "", sleep |-> 0, outcome |-> ""]

\* processRefunds up to its first await: the rows are read, then the balance
\* request is sent.
StartedCycle(sheet) ==
  [IdleCycle EXCEPT !.pc = "getBalance", !.trades = sheet_to_json(sheet)]

\* processRefunds going round its loop again where it should return.
Returned_continues(cyc, outcome) ==
  [cyc EXCEPT !.pc = "getBalance", !.outcome = outcome]

\* processRefunds returns.
Returned(cyc, outcome) ==
  [IdleCycle EXCEPT !.pc = "done", !.trades = cyc.trades, !.i = cyc.i,
                    !.outcome = outcome]

\* -------------------------------------------------------------- start-up
\* The module's top-level code: limiter state, the dedup set, the workbook
\* (read from the file, or created and written once), the refund timer and
\* the first processRefunds call.
Startup(enable, initOk) ==
  /\ proc' = "running"
  /\ enableRefunds' = enable
  /\ uniqueWallets' = {}
  /\ requestCount' = 0
  /\ sinceReset' = 0
  /\ workbook' = IF fileExists THEN file ELSE << >>
  /\ fileExists' = (fileExists \/ initOk)
  /\ file' = IF fileExists THEN file ELSE << >>
  /\ refunds' = [c \in CycleIds |->
                   IF enable /\ c = 1 THEN StartedCycle(workbook')
                   ELSE IdleCycle]

\* The first start: no file yet.
Init ==
  /\ treasury = MaxBalance
  /\ transfers = << >>
  /\ callers = [idle |-> 0, sleeping |-> << >>, fetching |-> 0]
  /\ acquired = << >>
  /\ proc = "running"
  /\ enableRefunds \in BOOLEAN
  /\ uniqueWallets = {}
  /\ requestCount = 0
  /\ sinceReset = 0
  /\ workbook = << >>
  /\ fileExists \in BOOLEAN
  /\ file = << >>
  /\ refunds = [c \in CycleIds |->
                  IF enableRefunds /\ c = 1 THEN StartedCycle(<< >>)
                  ELSE IdleCycle]

\* The process is started again (by the operator or a supervisor), whether
\* it was running or had exited.
Restart ==
  /\ \E enable \in BOOLEAN, initOk \in BOOLEAN : Startup(enable, initOk)
  /\ UNCHANGED << chainVars, callerVars >>

\* The process exits with the given cause; its memory is gone.
Exit(cause) ==
  /\ proc' = cause
  /\ enableRefunds' = FALSE
  /\ uniqueWallets' = {}
  /\ requestCount' = 0
  /\ sinceReset' = 0
  /\ workbook' = << >>
  /\ refunds' = [c \in CycleIds |-> IdleCycle]

\* ------------------------------------------------------- the feed handler
\* The trades a data message may carry.  wellFormed = FALSE stands for a
\* trade without its Trade.Buy / Trade.Sell / Block objects.
TradeEvents ==
  { [wellFormed |-> TRUE, buyerAddress |-> a, buyMint |-> TARGET_MINT_ADDRESS,
     sellCurrency |-> "So11111111111111111111111111111111111111112",
     amount |-> Paid[a]] : a \in Addrs }
  \cup
  { [wellFormed |-> TRUE, buyerAddress |-> "W1", buyMint |-> "OtherMint",
     sellCurrency |-> "So11111111111111111111111111111111111111112",
     amount |-> 1],
    [wellFormed |-> TRUE, buyerAddress |-> "W2",
     buyMint |-> TARGET_MINT_ADDRESS, sellCurrency |-> "OtherMint",
     amount |-> 1],
    [wellFormed |-> FALSE, buyerAddress |-> "", buyMint |-> "",
     sellCurrency |-> "", amount |-> 0] }

Messages == UNION { [1..n -> TradeEvents] : n \in 0..MaxTrades }

SolAmount(trade) ==
  IF trade.sellCurrency \in SOL_MINT_ADDRESSES THEN trade.amount ELSE 0

\* The acceptance test without the uniqueWallets lookup.
Accepts_without_lookup(uw, trade) ==
  /\ trade.buyMint = TARGET_MINT_ADDRESS
  /\ SolAmount(trade) > 0

\* Whether the forEach body reaches appendTradeToExcel for this trade.
Accepts(uw, trade) ==
  /\ trade.buyMint = TARGET_MINT_ADDRESS
  /\ trade.buyerAddress \notin uw
  /\ SolAmount(trade) > 0

\* The forEach body for one trade: h is [st, uniqueWallets, thrown].
HandleTrade(h, trade, fails) ==
  IF ~trade.wellFormed
  THEN [h EXCEPT !.thrown = TRUE]
  ELSE IF Accepts(h.uniqueWallets, trade)
       THEN LET r == appendTradeToExcel(h.st, trade.buyerAddress,
                                        SolAmount(trade), fails)
            IN  [st |-> [workbook |-> r.workbook,
                         fileExists |-> r.fileExists, file |-> r.file],
                 uniqueWallets |-> h.uniqueWallets \cup {trade.buyerAddress},
                 thrown |-> FALSE]
       ELSE h

\* trades.forEach from trade k on: in order, stopping at the first
\* exception.  The result is the set of outcomes over what the disk may do
\* at each write attempt.
RECURSIVE HandleTrades(_, _, _)
HandleTrades(h, trades, k) ==
  IF k > Len(trades) \/ h.thrown
  THEN {h}
  ELSE IF trades[k].wellFormed /\ Accepts(h.uniqueWallets, trades[k])
       THEN UNION { HandleTrades(HandleTrade(h, trades[k], fails),
                                 trades, k + 1) :
                    fails \in 0..MAX_WRITE_RETRIES }
       ELSE HandleTrades(HandleTrade(h, trades[k], 0), trades, k + 1)

\* case "data".  The handler is synchronous: nothing else runs between its
\* trades.  An exception leaves the listener and ends the process.
OnDataMessage ==
  /\ proc = "running"
  /\ \E trades \in Messages :
       \E h \in HandleTrades([st |-> Store, uniqueWallets |-> uniqueWallets,
                              thrown |-> FALSE], trades, 1) :
         /\ Len(h.st.workbook) <= MaxRecords
         /\ fileExists' = h.st.fileExists
         /\ file' = h.st.file
         /\ IF h.thrown
            THEN Exit("uncaughtException")
            ELSE /\ workbook' = h.st.workbook
                 /\ uniqueWallets' = h.uniqueWallets
                 /\ UNCHANGED << proc, enableRefunds, limiterVars, refunds >>
  /\ UNCHANGED << chainVars, callerVars >>

\* case "connection_ack" sends the two subscriptions; case "ka",
\* case "error" and the default case only log.
OnOtherMessage ==
  /\ proc = "running"
  /\ UNCHANGED vars

\* A frame that is not JSON, or a data message without a payload:
\* JSON.parse / response.payload.data throws inside the listener.
OnUnreadableMessage ==
  /\ proc = "running"
  /\ Exit("uncaughtException")
  /\ UNCHANGED << fileExists, file, chainVars, callerVars >>

\* ------------------------------------------------------------------- time
Aged(ages, d) ==
  SelectSeq([k \in 1..Len(ages) |-> ages[k] + d],
            LAMBDA age : age < RATE_LIMIT_INTERVAL)

Slept(sleeps, d) == [k \in 1..Len(sleeps) |-> Max(sleeps[k] - d, 0)]

\* d ms pass for the limiter and for every sleeping call.
PassTime(d, cycles) ==
  /\ sinceReset' = Min(sinceReset + d, RATE_LIMIT_INTERVAL)
  /\ refunds' = [c \in CycleIds |->
                   [cycles[c] EXCEPT !.sleep = Max(@ - d, 0)]]
  /\ callers' = [callers EXCEPT !.sleeping = Slept(@, d)]
  /\ acquired' = Aged(acquired, d)

Tick ==
  /\ proc = "running"
  /\ PassTime(TickMs, refunds)
  /\ UNCHANGED << proc, enableRefunds, ledgerVars, requestCount, chainVars >>

\* ------------------------------------------------------------ processRefunds
\* The least idle slot: refund cycles are interchangeable.
Free(c) == refunds[c].pc \in {"idle", "done"}
FreeSlot == CHOOSE c \in CycleIds : Free(c) /\ \A d \in CycleIds : Free(d) => c <= d

\* The setInterval callback, REFUND_CHECK_INTERVAL after the last one (or
\* after start-up): a new processRefunds runs up to its first await.
TimerTick ==
  /\ proc = "running"
  /\ enableRefunds
  /\ \E c \in CycleIds : Free(c)
  /\ PassTime(REFUND_CHECK_INTERVAL,
              [refunds EXCEPT ![FreeSlot] = StartedCycle(workbook)])
  /\ UNCHANGED << proc, enableRefunds, ledgerVars, requestCount, chainVars >>

\* Cycle c calls rateLimitedGetOwnerWallet(cyc.ata) with its locals cyc.
EnterLimiter(c, cyc) ==
  LET r == RateLimit(sinceReset, requestCount)
  IN  /\ requestCount' = r.requestCount
      /\ sinceReset' = r.sinceReset
      /\ refunds' = [refunds EXCEPT ![c] =
           IF r.acquire
           THEN [cyc EXCEPT !.pc = "getAccountInfo"]
           ELSE [cyc EXCEPT !.pc = "rlWait", !.sleep = r.delay]]

\* getBalance resolves: the loop stops at the first pending row of the rows
\* read before the await, and either ends the cycle or goes on to resolve
\* the row's ATA.
GetBalanceReturns(c) ==
  /\ refunds[c].pc = "getBalance"
  /\ LET cyc == refunds[c]
         treasuryBalance == treasury
         scan == ScanTrades(cyc.trades, 0, treasuryBalance)
     IN  IF scan.found = "none"
         THEN /\ refunds' = [refunds EXCEPT ![c] = Returned(cyc, "noPending")]
              /\ UNCHANGED limiterVars
         ELSE IF scan.found = "affordable"
              THEN EnterLimiter(c,
                     [cyc EXCEPT
                        !.i = scan.i,
                        !.ata = cyc.trades[scan.i + 1].ATA,
                        !.solBuyAmount = cyc.trades[scan.i + 1].sol_buy_amount])
              ELSE /\ refunds' = [refunds EXCEPT ![c] =
                        Returned([cyc EXCEPT !.i = scan.i], "insufficient")]
                   /\ UNCHANGED limiterVars
  /\ UNCHANGED << proc, enableRefunds, ledgerVars, chainVars, callerVars >>

\* The setTimeout of a sleeping call fires: rateLimitedGetOwnerWallet again.
LimiterWakes(c) ==
  /\ refunds[c].pc = "rlWait"
  /\ refunds[c].sleep = 0
  /\ EnterLimiter(c, refunds[c])
  /\ UNCHANGED << proc, enableRefunds, ledgerVars, chainVars, callerVars >>

\* Cycle c runs on into rateLimitedGetOwnerWallet: from the balance, or from
\* the sleep of an earlier call that found the window full.
CycleResolves(c) ==
  /\ proc = "running"
  /\ IF refunds[c].pc = "rlWait" THEN LimiterWakes(c)
     ELSE GetBalanceReturns(c)

\* getBalance rejects: nothing catches it, processRefunds rejects and no
\* one handles the promise.  Node either ends the process (the default
\* since v15) or only warns.
GetBalanceFails(c) ==
  /\ proc = "running"
  /\ refunds[c].pc = "getBalance"
  /\ \E exits \in BOOLEAN :
       IF exits
       THEN Exit("unhandledRejection")
       ELSE /\ refunds' = [refunds EXCEPT ![c] = IdleCycle]
            /\ UNCHANGED << proc, enableRefunds, uniqueWallets, workbook,
                            limiterVars >>
  /\ UNCHANGED << fileExists, file, chainVars, callerVars >>

\* getAccountInfo settles and rateLimitedGetOwnerWallet returns: the cycle
\* ends if the owner is the ATA itself, else the transfer is submitted.
GetAccountInfoReturns(c) ==
  /\ proc = "running"
  /\ refunds[c].pc = "getAccountInfo"
  /\ \E info \in AccountInfos :
       LET ownerWallet == ResolvedOwner(refunds[c].ata, info)
       IN  refunds' = [refunds EXCEPT ![c] =
             IF ownerWallet = refunds[c].ata
             THEN Returned(@, "unresolved")
             ELSE [@ EXCEPT !.pc = "send", !.ownerWallet = ownerWallet]]
  /\ UNCHANGED << proc, enableRefunds, ledgerVars, limiterVars, chainVars,
                  callerVars >>

\* The transfer carrying the required balance instead of the row's amount.
Executed_required_balance(c) ==
  Append(transfers, [to |-> refunds[c].ownerWallet,
                     amount |-> RequiredBalance(refunds[c].solBuyAmount),
                     ata |-> refunds[c].ata, row |-> refunds[c].i])

\* The chain executes the transfer of cycle c.
Executed(c) ==
  Append(transfers, [to |-> refunds[c].ownerWallet,
                     amount |-> refunds[c].solBuyAmount,
                     ata |-> refunds[c].ata, row |-> refunds[c].i])

\* sendAndConfirmTransaction resolves with a signature: the transfer is on
\* chain, the row is updated, and the cycle ends whatever updateExcelRow
\* returned.
SendConfirmed(c) ==
  /\ proc = "running"
  /\ refunds[c].pc = "send"
  /\ treasury >= refunds[c].solBuyAmount
  /\ treasury' = treasury - refunds[c].solBuyAmount
  /\ transfers' = Executed(c)
  /\ \E fails \in 0..MAX_WRITE_RETRIES :
       LET signature == Len(transfers')
           r == updateExcelRow(Store, refunds[c].i,
                               [status |-> 1,
                                solscan_link |-> SolscanLink(signature)],
                               fails)
       IN  /\ workbook' = r.workbook
           /\ fileExists' = r.fileExists
           /\ file' = r.file
           /\ refunds' = [refunds EXCEPT ![c] =
                Returned(@, IF r.ok THEN "refunded" ELSE "notUpdated")]
  /\ UNCHANGED << proc, enableRefunds, uniqueWallets, limiterVars,
                  callerVars >>

\* The catch block marking the row as failed before it returns.
SendFails_marks_row(c) ==
  /\ proc = "running"
  /\ refunds[c].pc = "send"
  /\ UNCHANGED chainVars
  /\ LET r == updateExcelRow(Store, refunds[c].i,
                             [status |-> 2, solscan_link |-> ""], 0)
     IN  /\ workbook' = r.workbook
         /\ fileExists' = r.fileExists
         /\ file' = r.file
  /\ refunds' = [refunds EXCEPT ![c] = Returned(@, "sendError")]
  /\ UNCHANGED << proc, enableRefunds, uniqueWallets, limiterVars,
                  callerVars >>

\* sendAndConfirmTransaction throws: the catch logs and the cycle ends.  The
\* transfer was either never executed, or executed without the confirmation
\* reaching the caller in time.
SendFails(c) ==
  /\ proc = "running"
  /\ refunds[c].pc = "send"
  /\ \E landed \in BOOLEAN :
       IF landed
       THEN /\ treasury >= refunds[c].solBuyAmount
            /\ treasury' = treasury - refunds[c].solBuyAmount
            /\ transfers' = Executed(c)
       ELSE UNCHANGED chainVars
  /\ refunds' = [refunds EXCEPT ![c] = Returned(@, "sendError")]
  /\ UNCHANGED << proc, enableRefunds, ledgerVars, limiterVars, callerVars >>

Next ==
  \/ Restart
  \/ OnDataMessage
  \/ OnOtherMessage
  \/ OnUnreadableMessage
  \/ Tick
  \/ TimerTick
  \/ \E c \in CycleIds :
       \/ CycleResolves(c)
       \/ GetBalanceFails(c)
       \/ GetAccountInfoReturns(c)
       \/ SendConfirmed(c)
       \/ SendFails(c)

Spec == Init /\ [][Next]_vars

\* ------------------------------------------- the resolver's callers alone
\* RateLimitSpec: NumCallers invocations of rateLimitedGetOwnerWallet by
\* concurrent callers, each idle (not yet called), sleeping with a time
\* left (in call order: a later sleeper never has less time left), or
\* fetching (slot taken, getAccountInfo in flight).
RateLimitInit ==
  /\ treasury = MaxBalance
  /\ transfers = << >>
  /\ callers = [idle |-> NumCallers, sleeping |-> << >>, fetching |-> 0]
  /\ acquired = << >>
  /\ proc = "running"
  /\ enableRefunds = FALSE
  /\ uniqueWallets = {}
  /\ requestCount = 0
  /\ sinceReset = 0
  /\ workbook = << >>
  /\ fileExists = TRUE
  /\ file = << >>
  /\ refunds = [c \in CycleIds |-> IdleCycle]

\* A caller (cs is callers without it) runs rateLimitedGetOwnerWallet up to
\* its first await.
CallerEnters(cs) ==
  LET r == RateLimit(sinceReset, requestCount)
  IN  /\ requestCount' = r.requestCount
      /\ sinceReset' = r.sinceReset
      /\ IF r.acquire
         THEN /\ callers' = [cs EXCEPT !.fetching = @ + 1]
              /\ acquired' = Append(acquired, 0)
         ELSE /\ callers' = [cs EXCEPT !.sleeping = Append(@, r.delay)]
              /\ UNCHANGED acquired
      /\ UNCHANGED << proc, enableRefunds, ledgerVars, chainVars, refunds >>

CallerCalls ==
  /\ callers.idle > 0
  /\ CallerEnters([callers EXCEPT !.idle = @ - 1])

\* The setTimeout of a sleeping caller fires: it calls again.
CallerWakes ==
  /\ callers.sleeping # << >>
  /\ Head(callers.sleeping) = 0
  /\ CallerEnters([callers EXCEPT !.sleeping = Tail(@)])

\* getAccountInfo settles and the call returns.
CallerReturns ==
  /\ callers.fetching > 0
  /\ callers' = [callers EXCEPT !.fetching = @ - 1]
  /\ UNCHANGED << proc, enableRefunds, ledgerVars, limiterVars, chainVars,
                  refunds, acquired >>

RateLimitNext ==
  \/ CallerCalls
  \/ CallerWakes
  \/ CallerReturns
  \/ Tick

RateLimitSpec == RateLimitInit /\ [][RateLimitNext]_vars

\* Time passes, and a timer whose delay has passed fires.
RateLimitLive ==
  /\ RateLimitInit
  /\ [][RateLimitNext]_vars
  /\ WF_vars(Tick)
  /\ WF_vars(CallerWakes)

\* ================================================================ claims
Settling == {"rlWait", "getAccountInfo", "send"}

\* The rows of a sheet for address a, and the rows marked refunded.
RowsOf(sheet, a) == {k \in 1..Len(sheet) : sheet[k][1] = a}
RefundedRows(sheet) == {k \in 1..Len(sheet) : sheet[k][3] = 1}

\* The first pending record of the rows a cycle read, from 1, or 0.
PendingRecords(trades) == {k \in 1..Len(trades) : trades[k].status = 0}
FirstPendingRecord(trades) ==
  IF PendingRecords(trades) = {} THEN 0
  ELSE CHOOSE k \in PendingRecords(trades) :
         \A j \in PendingRecords(trades) : k <= j

\* C1: within one run a row for an address is added only by the event that
\* puts the address into uniqueWallets, one row at a time, and once the
\* address is in uniqueWallets no event adds a row for it.
C1_DedupWithinRun ==
  [][\A a \in Addrs :
       /\ (a \in uniqueWallets /\ a \in uniqueWallets')
            => Cardinality(RowsOf(workbook', a))
                 = Cardinality(RowsOf(workbook, a))
       /\ (/\ proc = "running"
           /\ Cardinality(RowsOf(workbook', a))
                > Cardinality(RowsOf(workbook, a)))
            => /\ a \notin uniqueWallets
               /\ a \in uniqueWallets'
               /\ Cardinality(RowsOf(workbook', a))
                    = Cardinality(RowsOf(workbook, a)) + 1]_vars

\* An accepted address has its one row while the ledger has grown past it.
C1_Witness ==
  /\ proc = "running"
  /\ uniqueWallets = Addrs
  /\ \A a \in Addrs : Cardinality(RowsOf(workbook, a)) = 1

\* C2: when the one append of a data message fails all its writes (the
\* sheet grew by a row that did not reach the file), the buyer's address is
\* not left in uniqueWallets.
C2_RollbackOnAppendFailure ==
  [][(/\ proc' = "running"
      /\ Len(workbook') = Len(workbook) + 1
      /\ file' # workbook')
       => workbook'[Len(workbook')][1] \notin uniqueWallets']_vars

\* C3: an address that has a row from a previous run gets no second row.
C3_OneRecordAcrossRestarts ==
  \A a \in Addrs : Cardinality(RowsOf(workbook, a)) <= 1

\* C4: a cycle whose first pending record is unaffordable at the balance it
\* reads settles nothing: it goes on to no resolution or transfer, and the
\* step that ends it executes no transfer and marks no row.
C4_QueueOrdering ==
  [][\A c \in CycleIds :
       LET trades == refunds[c].trades
           first == FirstPendingRecord(trades)
       IN  (/\ refunds[c].pc = "getBalance"
            /\ first # 0
            /\ treasury < 2 + 2 * trades[first].sol_buy_amount)
             => /\ refunds'[c].pc \notin Settling
                /\ refunds'[c] # refunds[c]
                     => /\ transfers' = transfers
                        /\ RefundedRows(workbook') \subseteq
                             RefundedRows(workbook)]_vars

\* A cycle has stopped at an unaffordable first pending row while a later
\* pending row was affordable.
C4_Witness ==
  \E c \in CycleIds :
    /\ refunds[c].pc = "done"
    /\ refunds[c].outcome = "insufficient"
    /\ \E k \in 1..Len(refunds[c].trades) :
         /\ k > refunds[c].i + 1
         /\ refunds[c].trades[k].status = 0
         /\ treasury >= 2 + 2 * refunds[c].trades[k].sol_buy_amount

\* C5: no span of RATE_LIMIT_INTERVAL ms holds more than
\* RATE_LIMIT_PER_SECOND acquisitions of a limiter slot.
C5_SlidingWindowBound == Len(acquired) <= RATE_LIMIT_PER_SECOND

\* C6: the update of a cycle that was suspended since it read the rows
\* keeps every row of the sheet (those appended meanwhile included), changes
\* only the row the cycle selected, which is still the record it read, and
\* a successful write puts exactly that sheet on disk.
C6_UpdateKeepsAppends ==
  [][\A c \in CycleIds :
       (/\ refunds[c].pc = "send"
        /\ refunds'[c].pc = "done"
        /\ refunds'[c].outcome \in {"refunded", "notUpdated"})
         => LET row == refunds[c].i + 1
            IN  /\ Len(workbook') = Len(workbook)
                /\ Len(workbook) >= Len(refunds[c].trades)
                /\ \A k \in 1..Len(workbook) :
                     k # row => workbook'[k] = workbook[k]
                /\ workbook[row][1] = refunds[c].trades[row].ATA
                /\ workbook[row][2] = refunds[c].trades[row].sol_buy_amount
                /\ workbook'[row][1] = workbook[row][1]
                /\ workbook'[row][2] = workbook[row][2]
                /\ workbook'[row][3] = 1
                /\ refunds'[c].outcome = "refunded" => file' = workbook']_vars

\* A cycle has updated its row after a row was appended behind its back, and
\* the appended row is in the sheet and on disk.
C6_Witness ==
  \E c \in CycleIds :
    /\ refunds[c].pc = "done"
    /\ refunds[c].outcome = "refunded"
    /\ Len(refunds[c].trades) < Len(workbook)
    /\ workbook[refunds[c].i + 1][3] = 1
    /\ workbook[Len(workbook)][3] = 0
    /\ file = workbook

\* C7: a cycle goes on to resolve and pay a pending row only if the balance
\* it reads is at least 2 + 2 * the row's amount; below that it returns
\* without a limiter call, a transfer or a change of the sheet or the file.
C7_FundsGate ==
  [][\A c \in CycleIds :
       /\ (refunds[c].pc = "getBalance" /\ refunds'[c].pc \in Settling)
            => /\ refunds'[c].i + 1 = FirstPendingRecord(refunds[c].trades)
               /\ refunds'[c].solBuyAmount
                    = refunds[c].trades[refunds'[c].i + 1].sol_buy_amount
               /\ treasury >= 2 + 2 * refunds'[c].solBuyAmount
       /\ (refunds'[c].pc \in Settling /\ refunds[c].pc \notin Settling)
            => refunds[c].pc = "getBalance"
       /\ (refunds[c].pc \in Settling /\ refunds'[c].pc \in Settling)
            => /\ refunds'[c].i = refunds[c].i
               /\ refunds'[c].solBuyAmount = refunds[c].solBuyAmount
       /\ (/\ refunds[c].pc = "getBalance"
           /\ refunds'[c].pc = "done"
           /\ refunds'[c].outcome = "insufficient")
            => /\ treasury < 2 + 2 * refunds[c].trades[refunds'[c].i + 1]
                                                        .sol_buy_amount
               /\ UNCHANGED << requestCount, treasury, transfers, workbook,
                               fileExists, file >>
       /\ transfers' # transfers
            => \E d \in CycleIds :
                 /\ refunds[d].pc = "send"
                 /\ transfers' = Append(transfers, transfers'[Len(transfers')])
                 /\ transfers'[Len(transfers')].amount = refunds[d].solBuyAmount
                 /\ transfers'[Len(transfers')].row = refunds[d].i]_vars

\* Scenario C: balance 3, pending amount 1, required 4: the cycle returned.
C7_Witness ==
  \E c \in CycleIds :
    /\ refunds[c].pc = "done"
    /\ refunds[c].outcome = "insufficient"
    /\ treasury = 3
    /\ refunds[c].trades[refunds[c].i + 1].sol_buy_amount = 1

\* The transfer among xfers that a row's link names, or 0.
LinkedTransfer(row, xfers) ==
  IF \E sig \in 1..Len(xfers) : row[4] = SolscanLink(sig)
  THEN CHOOSE sig \in 1..Len(xfers) : row[4] = SolscanLink(sig)
  ELSE 0

\* The row carries the link of a confirmed transfer of its amount, made
\* for its ATA to another wallet.
Settled(row, xfers) ==
  /\ row[4] # ""
  /\ LinkedTransfer(row, xfers) # 0
  /\ xfers[LinkedTransfer(row, xfers)].ata = row[1]
  /\ xfers[LinkedTransfer(row, xfers)].amount = row[2]
  /\ xfers[LinkedTransfer(row, xfers)].to # row[1]

\* C8: when a cycle's transfer confirms and the write succeeds, exactly the
\* row it selected (the first pending one it read, affordable at the balance
\* it read) becomes refunded, with the link of that transfer; and every row
\* marked refunded, in memory or on disk, carries the link of a confirmed
\* transfer of its amount.
C8_SuccessfulSettlement ==
  [][/\ \A c \in CycleIds :
          (/\ refunds[c].pc = "send"
           /\ refunds'[c].pc = "done"
           /\ refunds'[c].outcome = "refunded")
            => LET row == refunds[c].i + 1
               IN  /\ row = FirstPendingRecord(refunds[c].trades)
                   /\ refunds[c].ownerWallet # refunds[c].ata
                   /\ Len(transfers') = Len(transfers) + 1
                   /\ RefundedRows(workbook')
                        = RefundedRows(workbook) \cup {row}
                   /\ workbook'[row] =
                        << refunds[c].ata, refunds[c].solBuyAmount, 1,
                           SolscanLink(Len(transfers')) >>
                   /\ workbook'[row][4] # ""
                   /\ Settled(workbook'[row], transfers')
                   /\ file' = workbook'
     /\ \A k \in RefundedRows(workbook') : Settled(workbook'[k], transfers')
     /\ \A k \in RefundedRows(file') : Settled(file'[k], transfers')]_vars

\* Scenario D: one transfer of 1 SOL confirmed, the row refunded with its
\* link and the second row still pending.
C8_Witness ==
  \E c \in CycleIds :
    /\ refunds[c].pc = "done"
    /\ refunds[c].outcome = "refunded"
    /\ Len(transfers) = 1
    /\ treasury = MaxBalance - 1
    /\ workbook[refunds[c].i + 1] = << "W2", 1, 1, SolscanLink(1) >>
    /\ file = workbook

\* The values updateExcelRow is called with.
RowUpdates ==
  [status : {0, 1}, solscan_link : {"", SolscanLink(1)}]

\* C9: on any ledger the program reaches, updateExcelRow keeps the number
\* of rows, their order and every row's ATA and amount, and changes no
\* other row; appendTradeToExcel keeps every row and adds one at the end,
\* pending, with the given ATA and amount.
C9_LedgerOrderStability ==
  /\ \A index \in 0..(Len(workbook) - 1), updates \in RowUpdates,
        fails \in 0..MAX_WRITE_RETRIES :
       LET r == updateExcelRow(Store, index, updates, fails)
       IN  /\ Len(r.workbook) = Len(workbook)
           /\ \A k \in 1..Len(workbook) :
                /\ r.workbook[k][1] = workbook[k][1]
                /\ r.workbook[k][2] = workbook[k][2]
                /\ k # index + 1 => r.workbook[k] = workbook[k]
           /\ r.workbook[index + 1][3] = updates.status
           /\ r.workbook[index + 1][4] = updates.solscan_link
  /\ \A a \in Addrs, solAmount \in 1..2, fails \in 0..MAX_WRITE_RETRIES :
       LET r == appendTradeToExcel(Store, a, solAmount, fails)
       IN  /\ Len(r.workbook) = Len(workbook) + 1
           /\ SubSeq(r.workbook, 1, Len(workbook)) = workbook
           /\ r.workbook[Len(r.workbook)] = << a, solAmount, 0, "" >>

\* Both operations have run: two rows in the order of their appends, the
\* first one updated in place.
C9_Witness ==
  /\ Len(workbook) = 2
  /\ workbook[1][1] = "W2" /\ workbook[1][3] = 1
  /\ workbook[2][1] = "W1" /\ workbook[2][3] = 0
  /\ file = workbook

\* C10: a malformed event never ends the consumer: the process is not
\* brought down by an exception thrown in the message listener.
C10_MalformedEventsDropped == proc # "uncaughtException"


\* C11: a failed RPC call inside a refund cycle never ends the process: the
\* process is not brought down by the rejection of a processRefunds promise.
C11_RpcFailureTransient == proc # "unhandledRejection"

\* How many consecutive write attempts the disk may reject.
WriteFailures == 0..(MAX_WRITE_RETRIES + 1)

\* What an operation's result must say when the disk rejects the first
\* fails attempts: at most 3 attempts, true at the first one that succeeds,
\* false after 3 failures.
WithinRetryBound(r, fails) ==
  /\ r.attempts \in 1..3
  /\ r.ok \in BOOLEAN
  /\ r.ok <=> fails < 3
  /\ r.ok => r.attempts = fails + 1
  /\ ~r.ok => r.attempts = 3

\* C12: on any ledger the program reaches, appendTradeToExcel and
\* updateExcelRow make at most 3 write attempts, return true at the first
\* attempt that succeeds and false when all 3 fail.
C12_RetryBound ==
  \A fails \in WriteFailures :
    /\ \A a \in Addrs :
         WithinRetryBound(appendTradeToExcel(Store, a, Paid[a], fails), fails)
    /\ \A index \in 0..(Len(workbook) - 1) :
         WithinRetryBound(
           updateExcelRow(Store, index,
                          [status |-> 1, solscan_link |-> SolscanLink(1)],
                          fails),
           fails)

\* An append has succeeded and a later one has failed all its attempts: its
\* row is in memory and not on disk.
C12_Witness ==
  /\ proc = "running"
  /\ fileExists
  /\ Len(file) = 1
  /\ Len(workbook) = 2
  /\ SubSeq(workbook, 1, 1) = file


\* C13: while the process runs, an address is in uniqueWallets if and only
\* if the file on disk holds a row for it.
C13_DedupTracksLedger ==
  proc = "running" =>
    \A a \in Addrs : a \in uniqueWallets <=> RowsOf(file, a) # {}

\* Cycle c's transfer is confirmed or fails in this step, which ends it.
Settles(c) == refunds[c].pc = "send" /\ refunds'[c].pc = "done"

\* C14: one invocation of processRefunds submits at most one transfer and
\* marks at most one row: a transfer is executed only by the step that ends
\* the cycle that submitted it, that step adds one transfer and marks no
\* row but the cycle's, a cycle submits only after resolving its one row,
\* and rows are marked by no other step (start-up reads them from the file).
C14_OneSettlementPerCycle ==
  [][/\ transfers' # transfers
          => \E c \in CycleIds :
               /\ Settles(c)
               /\ Len(transfers') = Len(transfers) + 1
               /\ SubSeq(transfers', 1, Len(transfers)) = transfers
               /\ transfers'[Len(transfers')].row = refunds[c].i
               /\ \A d \in CycleIds \ {c} : refunds'[d] = refunds[d]
     /\ \A c \in CycleIds :
          /\ (refunds'[c].pc = "send" /\ refunds[c].pc # "send")
               => refunds[c].pc = "getAccountInfo"
          /\ refunds[c].pc = "send"
               => refunds'[c].pc \in {"send", "done", "idle", "getBalance"}
          /\ (refunds[c].pc = "send" /\ refunds'[c].pc = "getBalance")
               => /\ transfers' = transfers
                  /\ uniqueWallets' = {}
     /\ \/ RefundedRows(workbook') \subseteq RefundedRows(workbook)
        \/ \E c \in CycleIds :
             /\ Settles(c)
             /\ transfers' # transfers
             /\ RefundedRows(workbook')
                  = RefundedRows(workbook) \cup {refunds[c].i + 1}
        \/ workbook' = file /\ uniqueWallets' = {}]_vars

\* A cycle has settled its row and returned although the next pending row
\* is affordable too.
C14_Witness ==
  \E c \in CycleIds :
    /\ refunds[c].pc = "done"
    /\ refunds[c].outcome = "refunded"
    /\ Len(transfers) = 1
    /\ \E k \in 1..Len(workbook) :
         /\ k > refunds[c].i + 1
         /\ workbook[k][3] = 0
         /\ treasury >= 2 + 2 * workbook[k][2]


\* Sheet new keeps every row of sheet old, in place, with its ATA and
\* amount; a row that changes ends refunded with a link, and a refunded row
\* stays refunded.
Monotonic(old, new) ==
  /\ Len(new) >= Len(old)
  /\ \A k \in 1..Len(old) :
       /\ new[k][1] = old[k][1]
       /\ new[k][2] = old[k][2]
       /\ old[k][3] = 1 => new[k][3] = 1
       /\ old[k][3] = 0 => old[k][4] = ""
       /\ new[k] # old[k] => new[k][3] = 1 /\ new[k][4] # ""

\* C15: the rows on disk only ever change from pending to refunded and are
\* never removed; so do the rows in memory, which otherwise are only read
\* again from the file at start-up; an existing row is changed in memory
\* only by the step of a refund cycle whose transfer was confirmed;
\* statuses are 0 or 1.
C15_StatusMonotonic ==
  [][/\ Monotonic(file, file')
     /\ \/ /\ Monotonic(workbook, workbook')
           /\ (\E k \in 1..Len(workbook) : workbook'[k] # workbook[k])
                => \E c \in CycleIds : Settles(c) /\ transfers' # transfers
        \/ proc' = "running" /\ workbook' = file /\ uniqueWallets' = {}
        \/ proc' # "running" /\ workbook' = << >>
     /\ \A k \in 1..Len(workbook') : workbook'[k][3] \in {0, 1}]_vars

\* A refunded row has stayed refunded, in memory and on disk, through a
\* restart and a later append.
C15_Witness ==
  /\ proc = "running"
  /\ Len(workbook) = 2
  /\ workbook[1][3] = 1
  /\ workbook[2][3] = 0
  /\ uniqueWallets = {workbook[2][1]}
  /\ workbook[1][1] \notin uniqueWallets
  /\ file = workbook

\* Cycle c ends in this step because the resolver returned the ATA itself
\* or the transfer threw.
SettlementFails(c) ==
  /\ refunds[c].pc \in {"getAccountInfo", "send"}
  /\ refunds'[c].pc = "done"
  /\ refunds'[c].outcome \in {"unresolved", "sendError"}

\* C16: the step that ends a cycle on an unresolved owner or a failed
\* transfer changes neither the sheet nor the file, the cycle does nothing
\* after it, and while its row is pending a cycle started next finds that
\* row as its first pending one.
C16_RetryAfterFailedSettlement ==
  [][\A c \in CycleIds :
       /\ SettlementFails(c)
            => /\ workbook' = workbook
               /\ file' = file
               /\ refunds'[c].i = refunds[c].i
               /\ refunds'[c].outcome = "unresolved" => transfers' = transfers
               /\ workbook[refunds[c].i + 1][3] = 0
                    => /\ workbook'[refunds[c].i + 1][3] = 0
                       /\ workbook'[refunds[c].i + 1][4] = ""
                       /\ FirstPendingRecord(StartedCycle(workbook').trades)
                            = refunds[c].i + 1
       /\ (refunds[c].pc = "done" /\ refunds'[c].pc # "done")
            => /\ refunds'[c].pc \in {"idle", "getBalance"}
               /\ refunds'[c].pc = "getBalance"
                    => refunds'[c] = StartedCycle(workbook')]_vars

\* A cycle's transfer failed and the next cycle has selected the same row
\* and goes on to resolve it.
C16_Witness ==
  \E c, d \in CycleIds :
    /\ refunds[c].pc = "done"
    /\ refunds[c].outcome = "sendError"
    /\ transfers = << >>
    /\ refunds[d].pc = "getAccountInfo"
    /\ refunds[d].i = refunds[c].i
    /\ workbook[refunds[c].i + 1][3] = 0


\* C17: the count of the current window never exceeds 9; a caller that
\* finds the window full sleeps for what is left of the window; and every
\* sleeping caller eventually takes a slot, so that no caller is left asleep.
C17_LimiterLiveness ==
  /\ [](requestCount <= 9)
  /\ [][Len(callers'.sleeping) > Len(callers.sleeping)
          => /\ requestCount = 9
             /\ requestCount' = 9
             /\ callers'.sleeping[Len(callers'.sleeping)]
                  = 1000 - sinceReset']_vars
  /\ (callers.sleeping # << >>) ~> (callers.sleeping = << >>)

\* A caller found the window full half way through it, has slept the 500 ms
\* that were left and is about to call again.
C17_Witness ==
  /\ requestCount = 9
  /\ Len(callers.sleeping) = 1
  /\ Head(callers.sleeping) = 0
  /\ sinceReset = RATE_LIMIT_INTERVAL
  /\ callers.idle = 0


\* C18: no ledger record is paid twice: the chain executes at most one
\* transfer for a given row.
C18_NoDoublePayment ==
  \A s, t \in 1..Len(transfers) :
    (transfers[s].row = transfers[t].row /\ transfers[s].ata = transfers[t].ata)
      => s = t

\* Every row before a refunded row of the sheet is refunded.
Fifo(sheet) ==
  \A j \in RefundedRows(sheet) : \A k \in 1..(j - 1) : k \in RefundedRows(sheet)

\* C19: in memory and on disk, a row is marked refunded only if every row
\* before it is; a cycle whose first pending row cannot be settled leaves
\* the later rows as they are.
C19_StrictFifo ==
  /\ Fifo(workbook)
  /\ Fifo(file)
  /\ \A c \in CycleIds :
       (refunds[c].pc = "done" /\ refunds[c].i >= 0)
         => \A k \in 1..refunds[c].i : k \in RefundedRows(workbook)

\* The second row has been settled after the first, and a cycle has found
\* nothing left.
C19_Witness ==
  /\ Len(workbook) = 2
  /\ RefundedRows(workbook) = {1, 2}
  /\ file = workbook
  /\ Len(transfers) = 2
  /\ transfers[1].row = 0
  /\ transfers[2].row = 1

\* C20: on any ledger the program reaches, appendTradeToExcel and
\* updateExcelRow leave their change in the sheet in memory whether or not
\* a write succeeds; when none does the file is as before, and when one
\* does the file holds the whole sheet in memory, with whatever earlier
\* operations left there without writing it.
C20_MemoryAheadOfDisk ==
  \A fails \in WriteFailures :
    /\ \A a \in Addrs :
         LET r == appendTradeToExcel(Store, a, Paid[a], fails)
         IN  /\ r.workbook = Append(workbook, << a, Paid[a], 0, "" >>)
             /\ r.ok => r.file = r.workbook /\ r.fileExists
             /\ ~r.ok => r.file = file /\ r.fileExists = fileExists
    /\ \A index \in 0..(Len(workbook) - 1) :
         LET r == updateExcelRow(Store, index,
                                 [status |-> 1,
                                  solscan_link |-> SolscanLink(1)], fails)
         IN  /\ r.workbook =
                  [workbook EXCEPT ![index + 1] =
                     << @[1], @[2], 1, SolscanLink(1) >>]
             /\ r.ok => r.file = r.workbook /\ r.fileExists
             /\ ~r.ok => r.file = file /\ r.fileExists = fileExists

\* An update reported failure, its change stayed in memory, and the write
\* of a later append has put it on disk.
C20_Witness ==
  \E c \in CycleIds :
    /\ refunds[c].pc = "done"
    /\ refunds[c].outcome = "notUpdated"
    /\ Len(refunds[c].trades) < Len(workbook)
    /\ workbook[refunds[c].i + 1][3] = 1
    /\ file = workbook

====
